---- MODULE Spec2Model ----
(***************************************************************************)
(* Model of nikola/utils.py: the LocaleBorg locale-state manager and the   *)
(* get_translation_candidate path resolver.                                *)
(*                                                                         *)
(* LocaleBorg keeps its state in class attributes (initialized, locales,   *)
(* encodings, __shared_state).  The class body defines none of them: they  *)
(* come into existence the first time reset() runs.  Every instance takes  *)
(* the dict that __shared_state refers to at construction time as its own  *)
(* __dict__, and reset() rebinds __shared_state to a new dict, so an       *)
(* instance may be left with a dict the class no longer uses.              *)
(***************************************************************************)
EXTENDS Integers, Sequences, FiniteSets, TLC

\* ---------------------------------------------------------------- bounds
NumLangs == 2
MaxHandles == 2
MaxLen == 4
NumThemes == 3

\* ------------------------------------------------------------ input sets
AllLangs == <<"en", "fr", "es", "de">>
Langs == {AllLangs[i] : i \in 1..NumLangs}
None == "None"
\* the sanitized locale of each language
LocaleOf == [l \in Langs |-> CASE l = "en" -> "en_US.UTF-8"
                                [] l = "fr" -> "fr_FR.ISO8859-1"
                                [] l = "es" -> "es_ES.UTF-8"
                                [] OTHER -> "de_DE.ISO8859-1"]
CLocale == "C"
MonthInputs == {1, 13}

\* characters of paths and language codes; a string is a sequence of them
Alphabet == {"a", "e", ".", "/"}
Paths == UNION {[1..n -> Alphabet] : n \in 0..MaxLen}
\* TRANSLATIONS_PATTERN as the sequence of its placeholders and literal characters
DocumentedPatterns == {<<"{path}", ".", "{lang}", ".", "{ext}">>, <<"{path}", ".", "{ext}", ".", "{lang}">>}
\* the keys of TRANSLATIONS in the order the dict enumerates them
TranslationKeys == {<< <<"e">>, <<"a">> >>, << <<"a">>, <<"e">> >>,
                    << <<"e">>, <<"e", "a">> >>, << <<"e", "a">>, <<"e">> >>}
Range(f) == {f[i] : i \in DOMAIN f}
Configs == UNION {{[TRANSLATIONS_PATTERN |-> pat, DEFAULT_LANG |-> d, TRANSLATIONS |-> keys] :
                     pat \in DocumentedPatterns, d \in Range(keys)} : keys \in TranslationKeys}

\* locale tables a caller can pass: dict lang -> locale_n
Tables == {[l \in S |-> LocaleOf[l]] : S \in SUBSET Langs}
\* iteration orders of a dict with key set S
Orders(S) == {o \in [1..Cardinality(S) -> S] : \A i, j \in 1..Cardinality(S) : o[i] = o[j] => i = j}

VARIABLES
  class_attrs,     \* whether the class attributes (initialized, locales, encodings, __shared_state) exist
  shared_state,    \* the 'current_lang' entry of the dict cls.__shared_state refers to
  initialized,     \* cls.initialized (meaningful when the class attributes exist)
  locales,         \* cls.locales
  encodings,       \* cls.encodings
  handles,         \* caller variables holding LocaleBorg instances: the __dict__ of each
  process_locale,  \* the C library locale of the process, per category
  last,            \* the most recent call: what was called, with what, and how it ended
  config,          \* the configuration get_translation_candidate is called with
  calls,           \* the get_translation_candidate calls made so far: path, lang, result
  threads,         \* per thread: the LocaleBorg call it runs, the line it is at, its local variables
  interleaved,     \* whether a thread has taken a step while the other was inside its call
  theme_files,     \* per theme directory: what its 'parent' file names, if there is one
  chain            \* the get_theme_chain call: where it is, its list themes, how it ended

borg_vars == <<class_attrs, shared_state, initialized, locales, encodings, handles, process_locale, last>>
path_vars == <<config, calls>>
race_vars == <<threads, interleaved>>
theme_vars == <<theme_files, chain>>
vars == <<class_attrs, shared_state, initialized, locales, encodings, handles, process_locale, last,
          config, calls, threads, interleaved, theme_files, chain>>

ClassAttrsSet == class_attrs

\* ------------------------------------------------------ instance dicts
\* The __dict__ of an instance is the dict cls.__shared_state referred to when
\* the instance was built.  It is either still that dict ("shared") or a dict
\* the class has dropped since ("dropped").  Only set_locale writes to a dict,
\* and it writes to cls.__shared_state, so a dropped dict keeps the content it
\* had when it was dropped and is represented by that content.
NoInstance == [dict |-> "none", current_lang |-> None]
SharedDict == [dict |-> "shared", current_lang |-> None]
DroppedDict(cur) == [dict |-> "dropped", current_lang |-> cur]
\* cls.__shared_state = {...}: the instances keep the dict the class lets go of
rebind_shared_state(hs, cur) == [h \in DOMAIN hs |-> IF hs[h].dict = "shared" THEN DroppedDict(cur) ELSE hs[h]]

\* ------------------------------------------------------- locale module
\* locale.setlocale(category, locale_n)
setlocale(pl, category, locale_n) ==
  IF category = "LC_ALL" THEN [c \in DOMAIN pl |-> locale_n]
  ELSE [pl EXCEPT ![category] = locale_n]

\* the encoding component of locale.getlocale()
getlocale_encoding(pl) ==
  CASE pl.LC_CTYPE \in {"en_US.UTF-8", "es_ES.UTF-8"} -> "UTF-8"
    [] pl.LC_CTYPE \in {"fr_FR.ISO8859-1", "de_DE.ISO8859-1"} -> "ISO8859-1"
    [] OTHER -> None

\* calendar.month_name[month_no] under the LC_TIME locale loc: a table of 13 entries
\* indexed like a Python list, so -13..12 are valid indexes
month_name_valid(month_no) == month_no \in -13..12
month_name(loc, month_no) == <<loc, month_no>>

\* ------------------------------------------------------------ call log
Call(op, h, lang, tbl, exc, ret, name) ==
  [op |-> op, h |-> h, lang |-> lang, locales |-> tbl, exc |-> exc, ret |-> ret, name |-> name]

NoConfig == [TRANSLATIONS_PATTERN |-> <<>>, DEFAULT_LANG |-> <<>>, TRANSLATIONS |-> <<>>]

BorgInit ==
  /\ class_attrs = FALSE
  /\ shared_state = None
  /\ initialized = FALSE
  /\ locales = <<>>
  /\ encodings = <<>>
  /\ handles = [h \in 1..MaxHandles |-> NoInstance]
  /\ process_locale = [LC_TIME |-> CLocale, LC_CTYPE |-> CLocale]
  /\ last = Call("start", 0, None, <<>>, "", None, <<>>)

Threads == {1, 2}
\* a thread that has not called anything
IdleThread == [op |-> "none", lang |-> None, month_no |-> 0, pc |-> "idle",
               arg |-> None, locale_n |-> None, oldlocale |-> None, s |-> <<>>, exc |-> ""]
NoThreads == threads = [t \in Threads |-> IdleThread] /\ interleaved = FALSE

\* get_theme_chain has not been called
NoChain == [pc |-> "idle", theme |-> None, themes |-> <<>>, exc |-> ""]
NoThemes == theme_files = <<>> /\ chain = NoChain

Init == BorgInit /\ config = NoConfig /\ calls = <<>> /\ NoThreads /\ NoThemes

\* ------------------------------------------------------ LocaleBorg.reset
\* a fresh dict {'current_lang': None} becomes cls.__shared_state
reset_shared_state == None

reset ==
  /\ class_attrs' = TRUE
  /\ locales' = <<>>
  /\ encodings' = <<>>
  /\ shared_state' = reset_shared_state
  /\ handles' = rebind_shared_state(handles, shared_state)
  /\ initialized' = FALSE
  /\ last' = Call("reset", 0, None, <<>>, "", None, <<>>)
  /\ UNCHANGED process_locale
  /\ UNCHANGED <<path_vars, race_vars, theme_vars>>

\* ------------------------------------------------- LocaleBorg.initialize
\* the loop over locales: activate each locale, read back its encoding
RECURSIVE initialize_loop(_, _, _, _, _)
initialize_loop(order, i, tbl, pl, enc) ==
  IF i > Len(order) THEN [pl |-> pl, enc |-> enc]
  ELSE LET lang == order[i]
           pl2 == setlocale(pl, "LC_ALL", tbl[lang])
       IN initialize_loop(order, i + 1, tbl, pl2,
                          [l \in DOMAIN enc \cup {lang} |-> IF l = lang THEN getlocale_encoding(pl2) ELSE enc[l]])

\* encodings = {} : the table the loop fills starts empty
initialize_encodings_start_leftover == encodings
initialize_encodings_start == <<>>

initialize_assert_not_none(tbl, initial_lang) == initial_lang # None
initialize_assert(tbl, initial_lang) == initial_lang # None /\ initial_lang \in DOMAIN tbl

initialize(tbl, order, initial_lang) ==
  /\ UNCHANGED <<path_vars, race_vars, theme_vars>>
  /\ IF ~initialize_assert(tbl, initial_lang)
     THEN /\ last' = Call("initialize", 0, initial_lang, tbl, "AssertionError", None, <<>>)
          /\ UNCHANGED <<class_attrs, shared_state, initialized, locales, encodings, handles, process_locale>>
     ELSE /\ LET r == initialize_loop(order, 1, tbl, process_locale, initialize_encodings_start)
             IN /\ class_attrs' = TRUE
                /\ handles' = rebind_shared_state(handles, shared_state)
                /\ locales' = tbl
                /\ encodings' = r.enc
                /\ process_locale' = r.pl
                /\ shared_state' = initial_lang
                /\ initialized' = TRUE
          /\ last' = Call("initialize", 0, initial_lang, tbl, "", None, <<>>)

\* --------------------------------------------------- LocaleBorg.__init__
\* h = LocaleBorg(): self.initialized is looked up on the class
LocaleBorg_init_exc ==
  IF ~ClassAttrsSet THEN "AttributeError"
  ELSE IF ~initialized THEN "Exception: Attempt to use LocaleBorg before initialization"
  ELSE ""

LocaleBorg_init(h) ==
  /\ last' = Call("LocaleBorg", h, None, <<>>, LocaleBorg_init_exc, None, <<>>)
  /\ handles' = IF LocaleBorg_init_exc = "" THEN [handles EXCEPT ![h] = SharedDict] ELSE handles
  /\ UNCHANGED <<class_attrs, shared_state, initialized, locales, encodings, process_locale>>
  /\ UNCHANGED <<path_vars, race_vars, theme_vars>>

\* h.current_lang: an instance attribute, read from the instance's own __dict__
current_lang_of(h) == IF handles[h].dict = "shared" THEN shared_state ELSE handles[h].current_lang

read_current_lang(h) ==
  /\ handles[h] # NoInstance
  /\ last' = Call("current_lang", h, None, <<>>, "", current_lang_of(h), <<>>)
  /\ UNCHANGED <<class_attrs, shared_state, initialized, locales, encodings, handles, process_locale>>
  /\ UNCHANGED <<path_vars, race_vars, theme_vars>>

\* ------------------------------------------------- LocaleBorg.set_locale
\* self.locales and self.__shared_state are not in the instance __dict__: both
\* resolve to the class attributes as they are at the time of the call
set_locale_shared_state_forgotten(cur, lang) == cur
set_locale_shared_state(cur, lang) == lang
set_locale_process_locale(pl, lang) == setlocale(pl, "LC_ALL", locales[lang])
\* self.locales[lang] raises KeyError before the assignment to current_lang runs
set_locale_keyerror_shared_state_written(cur, lang) == lang
set_locale_keyerror_shared_state(cur, lang) == cur

set_locale(h, lang) ==
  /\ handles[h] # NoInstance
  /\ IF lang \notin DOMAIN locales
     THEN /\ last' = Call("set_locale", h, lang, <<>>, "KeyError", None, <<>>)
          /\ shared_state' = set_locale_keyerror_shared_state(shared_state, lang)
          /\ UNCHANGED process_locale
     ELSE /\ shared_state' = set_locale_shared_state(shared_state, lang)
          /\ process_locale' = set_locale_process_locale(process_locale, lang)
          /\ last' = Call("set_locale", h, lang, <<>>, "", "", <<>>)
  /\ UNCHANGED <<class_attrs, initialized, locales, encodings, handles>>
  /\ UNCHANGED <<path_vars, race_vars, theme_vars>>

\* --------------------------------------------- LocaleBorg.get_month_name
\* calendar.different_locale / calendar.TimeEncoding: LC_TIME is switched on
\* entry and put back on exit, also when the body raises
different_locale_enter(pl, locale_n) == setlocale(pl, "LC_TIME", locale_n)
different_locale_exit(pl, oldlocale) == setlocale(pl, "LC_TIME", oldlocale)

\* the final self.set_locale(self.current_lang): self.current_lang is the
\* instance's own value, the target dict is the class's
get_month_name_restore_lang(h) == current_lang_of(h)

get_month_name(h, month_no, lang) ==
  /\ handles[h] # NoInstance
  /\ IF lang \notin DOMAIN locales
     THEN /\ last' = Call("get_month_name", h, lang, <<>>, "KeyError", None, <<>>)
          /\ UNCHANGED <<shared_state, process_locale>>
     ELSE LET inside == different_locale_enter(process_locale, locales[lang])
              after == different_locale_exit(inside, process_locale.LC_TIME)
              s == month_name(inside.LC_TIME, month_no)
              cur == get_month_name_restore_lang(h)
          IN IF ~month_name_valid(month_no)
             THEN /\ last' = Call("get_month_name", h, lang, <<>>, "IndexError", None, <<>>)
                  /\ process_locale' = after
                  /\ UNCHANGED shared_state
             ELSE IF cur \notin DOMAIN locales
             THEN /\ last' = Call("get_month_name", h, lang, <<>>, "KeyError", None, <<>>)
                  /\ process_locale' = after
                  /\ UNCHANGED shared_state
             ELSE /\ shared_state' = set_locale_shared_state(shared_state, cur)
                  /\ process_locale' = set_locale_process_locale(after, cur)
                  /\ last' = Call("get_month_name", h, lang, <<>>, "", None, s)
  /\ UNCHANGED <<class_attrs, initialized, locales, encodings, handles>>
  /\ UNCHANGED <<path_vars, race_vars, theme_vars>>

\* ------------------------------------------- TranslatableSetting.get_lang
\* a setting as get_lang sees it: the lang override (the class attribute lang =
\* None, or a language set on it), whether the input was a dict, and the class
\* attribute default_lang = 'en'
Settings == {[lang |-> l, translated |-> t, default_lang |-> "en"] :
               l \in {None, "fr"}, t \in BOOLEAN}

GetLangCall(setting, exc, ret) ==
  [op |-> "get_lang", h |-> 0, lang |-> setting.lang, locales |-> <<>>, exc |-> exc, ret |-> ret,
   name |-> <<>>, translated |-> setting.translated, default_lang |-> setting.default_lang]

\* except AttributeError: the only exception the handler catches
get_lang_catches(exc) == exc = "AttributeError"

\* LocaleBorg().current_lang: the instance is built, read once and let go of
get_lang(setting) ==
  /\ last' = IF setting.lang # None THEN GetLangCall(setting, "", setting.lang)
             ELSE IF ~setting.translated THEN GetLangCall(setting, "", setting.default_lang)
             ELSE IF LocaleBorg_init_exc = "" THEN GetLangCall(setting, "", shared_state)
             ELSE IF get_lang_catches(LocaleBorg_init_exc)
                  THEN GetLangCall(setting, "", setting.default_lang)
             ELSE GetLangCall(setting, LocaleBorg_init_exc, None)
  /\ UNCHANGED <<class_attrs, shared_state, initialized, locales, encodings, handles, process_locale>>
  /\ UNCHANGED <<path_vars, race_vars, theme_vars>>

Next ==
  \/ reset
  \/ \E tbl \in Tables, initial_lang \in Langs \cup {None} :
       \E order \in Orders(DOMAIN tbl) : initialize(tbl, order, initial_lang)
  \/ \E h \in 1..MaxHandles : LocaleBorg_init(h)
  \/ \E h \in 1..MaxHandles : read_current_lang(h)
  \/ \E h \in 1..MaxHandles, lang \in Langs : set_locale(h, lang)
  \/ \E h \in 1..MaxHandles, month_no \in MonthInputs, lang \in Langs : get_month_name(h, month_no, lang)
  \/ \E setting \in Settings : get_lang(setting)

Spec == Init /\ [][Next]_vars

\* ============================================ get_translation_candidate
\* re.match(pattern, path): the compiled pattern is matched from the start of
\* path by backtracking; nothing anchors it at the end of path.
\*   {path} -> (?P<path>.+?)     one or more characters, shortest first
\*   {ext}  -> (?P<ext>[^\./]+)  one or more characters other than . and /, longest first
\*   {lang} -> (?P<lang>k1|k2)   the keys of TRANSLATIONS, in their order
\*   any other character of the pattern matches itself ('.' is escaped)
NoMatch == <<>>
NoGroups == [path |-> <<>>, ext |-> <<>>, lang |-> <<>>]

HasPrefixAt(s, pos, k) ==
  /\ pos + Len(k) - 1 <= Len(s)
  /\ \A i \in 1..Len(k) : s[pos + i - 1] = k[i]

\* length of the longest run of characters other than . and / starting at pos
RECURSIVE ext_run(_, _)
ext_run(s, pos) ==
  IF pos > Len(s) \/ s[pos] \in {".", "/"} THEN 0 ELSE 1 + ext_run(s, pos + 1)

RECURSIVE re_match_at(_, _, _, _, _)
RECURSIVE re_try_path(_, _, _, _, _, _)
RECURSIVE re_try_ext(_, _, _, _, _, _)
RECURSIVE re_try_lang(_, _, _, _, _, _)

\* element k of the pattern at position pos of s; g holds the groups captured so far
re_match_at(pat, k, s, pos, cfg_g) ==
  IF k > Len(pat) THEN <<cfg_g.g>>
  ELSE IF pat[k] = "{path}" THEN re_try_path(pat, k, s, pos, cfg_g, 1)
  ELSE IF pat[k] = "{ext}" THEN re_try_ext(pat, k, s, pos, cfg_g, ext_run(s, pos))
  ELSE IF pat[k] = "{lang}" THEN re_try_lang(pat, k, s, pos, cfg_g, 1)
  ELSE IF pos <= Len(s) /\ s[pos] = pat[k] THEN re_match_at(pat, k + 1, s, pos + 1, cfg_g)
  ELSE NoMatch

re_try_path(pat, k, s, pos, cfg_g, n) ==
  IF pos + n - 1 > Len(s) THEN NoMatch
  ELSE LET m == re_match_at(pat, k + 1, s, pos + n,
                            [cfg_g EXCEPT !.g.path = SubSeq(s, pos, pos + n - 1)])
       IN IF m # NoMatch THEN m ELSE re_try_path(pat, k, s, pos, cfg_g, n + 1)

re_try_ext(pat, k, s, pos, cfg_g, n) ==
  IF n < 1 THEN NoMatch
  ELSE LET m == re_match_at(pat, k + 1, s, pos + n,
                            [cfg_g EXCEPT !.g.ext = SubSeq(s, pos, pos + n - 1)])
       IN IF m # NoMatch THEN m ELSE re_try_ext(pat, k, s, pos, cfg_g, n - 1)

re_try_lang(pat, k, s, pos, cfg_g, j) ==
  IF j > Len(cfg_g.keys) THEN NoMatch
  ELSE LET key == cfg_g.keys[j]
           m == IF HasPrefixAt(s, pos, key)
                THEN re_match_at(pat, k + 1, s, pos + Len(key), [cfg_g EXCEPT !.g.lang = key])
                ELSE NoMatch
       IN IF m # NoMatch THEN m ELSE re_try_lang(pat, k, s, pos, cfg_g, j + 1)

re_match(cfg, s) ==
  re_match_at(cfg.TRANSLATIONS_PATTERN, 1, s, 1, [keys |-> cfg.TRANSLATIONS, g |-> NoGroups])

\* config['TRANSLATIONS_PATTERN'].format(path=p, ext=e, lang=l)
RECURSIVE pattern_format(_, _, _, _)
pattern_format(pat, p, e, l) ==
  IF pat = <<>> THEN <<>>
  ELSE (CASE pat[1] = "{path}" -> p
          [] pat[1] = "{ext}" -> e
          [] pat[1] = "{lang}" -> l
          [] OTHER -> <<pat[1]>>) \o pattern_format(Tail(pat), p, e, l)

\* str.rfind: the last position of character c in s, 0 when there is none
RECURSIVE rfind(_, _, _)
rfind(s, c, i) == IF i = 0 THEN 0 ELSE IF s[i] = c THEN i ELSE rfind(s, c, i - 1)

\* a split at the last dot of the whole string, wherever that dot is
splitext_last_dot(s) ==
  LET dotIndex == rfind(s, ".", Len(s))
  IN IF dotIndex > 0
     THEN <<SubSeq(s, 1, dotIndex - 1), SubSeq(s, dotIndex, Len(s))>>
     ELSE <<s, <<>>>>

\* os.path.splitext: the extension starts at the last dot of the last path
\* component, unless that component has only dots before it
splitext(s) ==
  LET sepIndex == rfind(s, "/", Len(s))
      dotIndex == rfind(s, ".", Len(s))
  IN IF dotIndex > sepIndex /\ \E i \in (sepIndex + 1)..(dotIndex - 1) : s[i] # "."
     THEN <<SubSeq(s, 1, dotIndex - 1), SubSeq(s, dotIndex, Len(s))>>
     ELSE <<s, <<>>>>

\* m and all(m.groups())
is_translated_path(m) == m # NoMatch /\ m[1].path # <<>> /\ m[1].ext # <<>> /\ m[1].lang # <<>>

get_translation_candidate(cfg, s, lang) ==
  LET m == re_match(cfg, s)
  IN IF is_translated_path(m)
     THEN LET p == m[1].path
              e == m[1].ext
              l == m[1].lang
          IN IF l = lang THEN s
             ELSE IF lang = cfg.DEFAULT_LANG THEN p \o <<".">> \o e
             ELSE pattern_format(cfg.TRANSLATIONS_PATTERN, p, e, lang)
     ELSE LET p == splitext(s)[1]
              ext == splitext(s)[2]
              e == IF ext = <<>> THEN <<>> ELSE Tail(ext)
          IN IF lang = cfg.DEFAULT_LANG THEN s
             ELSE pattern_format(cfg.TRANSLATIONS_PATTERN, p, e, lang)

\* the caller: a first call on any path, then a second call on the result of the first
PathInit ==
  /\ BorgInit
  /\ config \in Configs
  /\ calls = <<>>
  /\ NoThreads
  /\ NoThemes

resolve(s, lang) ==
  /\ calls' = Append(calls, [path |-> s, lang |-> lang,
                             result |-> get_translation_candidate(config, s, lang)])
  /\ UNCHANGED config
  /\ UNCHANGED <<borg_vars, race_vars, theme_vars>>

resolve_path == \E s \in Paths, lang \in Range(config.TRANSLATIONS) : calls = <<>> /\ resolve(s, lang)

resolve_result ==
  \E lang \in Range(config.TRANSLATIONS) : Len(calls) = 1 /\ resolve(calls[1].result, lang)

PathNext == resolve_path \/ resolve_result

PathSpec == PathInit /\ [][PathNext]_vars

\* ===================================== LocaleBorg called from two threads
\* Two threads, each holding a LocaleBorg instance, call set_locale or
\* get_month_name once.  LocaleBorg takes no lock anywhere, so the interpreter
\* may switch threads between any two statements: a step below is one statement
\* of set_locale, of get_month_name or of calendar.different_locale, and pc is
\* the line the thread executes next.
Other(t) == CHOOSE u \in Threads : u # t
Running(t) == threads[t].pc \notin {"idle", "done"}

\* LocaleBorg as the threads find it: after initialize(tbl, ...), one
\* LocaleBorg() per thread and set_locale(cur)
RaceInit ==
  /\ \E tbl \in Tables, cur \in Langs :
       /\ cur \in DOMAIN tbl
       /\ locales = tbl
       /\ encodings = [l \in DOMAIN tbl |->
                         getlocale_encoding([LC_TIME |-> tbl[l], LC_CTYPE |-> tbl[l]])]
       /\ shared_state = cur
       /\ process_locale = [LC_TIME |-> tbl[cur], LC_CTYPE |-> tbl[cur]]
       /\ last = Call("set_locale", 1, cur, <<>>, "", "", <<>>)
  /\ class_attrs = TRUE
  /\ initialized = TRUE
  /\ handles = [h \in 1..MaxHandles |-> IF h \in Threads THEN SharedDict ELSE NoInstance]
  /\ config = NoConfig /\ calls = <<>>
  /\ NoThreads
  /\ NoThemes

\* thread t executes one statement and is then as in the record th
thread_step(t, th) ==
  /\ threads' = [threads EXCEPT ![t] = th]
  /\ interleaved' = (interleaved \/ Running(Other(t)))
  /\ UNCHANGED <<class_attrs, initialized, locales, encodings, handles, last>>
  /\ UNCHANGED <<path_vars, theme_vars>>

call_set_locale(t, lang) ==
  /\ threads[t].pc = "idle"
  /\ thread_step(t, [IdleThread EXCEPT !.op = "set_locale", !.lang = lang, !.arg = lang, !.pc = "887"])
  /\ UNCHANGED <<shared_state, process_locale>>

call_get_month_name(t, month_no, lang) ==
  /\ threads[t].pc = "idle"
  /\ thread_step(t, [IdleThread EXCEPT !.op = "get_month_name", !.lang = lang,
                                       !.month_no = month_no, !.pc = "895"])
  /\ UNCHANGED <<shared_state, process_locale>>

\* line 887: locale_n = self.locales[lang]
set_locale_lookup(t) ==
  /\ threads[t].pc = "887"
  /\ IF threads[t].arg \notin DOMAIN locales
     THEN thread_step(t, [threads[t] EXCEPT !.pc = "done", !.exc = "KeyError"])
     ELSE thread_step(t, [threads[t] EXCEPT !.pc = "888", !.locale_n = locales[threads[t].arg]])
  /\ UNCHANGED <<shared_state, process_locale>>

\* line 888: self.__shared_state['current_lang'] = lang
set_locale_store(t) ==
  /\ threads[t].pc = "888"
  /\ shared_state' = set_locale_shared_state(shared_state, threads[t].arg)
  /\ thread_step(t, [threads[t] EXCEPT !.pc = "889"])
  /\ UNCHANGED process_locale

\* lines 889-890: locale.setlocale(locale.LC_ALL, locale_n); return ''
\* (after line 907: return s)
set_locale_setlocale(t) ==
  /\ threads[t].pc = "889"
  /\ process_locale' = setlocale(process_locale, "LC_ALL", threads[t].locale_n)
  /\ thread_step(t, [threads[t] EXCEPT !.pc = "done"])
  /\ UNCHANGED shared_state

\* line 895: self.locales[lang], the argument of calendar.different_locale
get_month_name_lookup(t) ==
  /\ threads[t].pc = "895"
  /\ IF threads[t].lang \notin DOMAIN locales
     THEN thread_step(t, [threads[t] EXCEPT !.pc = "done", !.exc = "KeyError"])
     ELSE thread_step(t, [threads[t] EXCEPT !.pc = "enter", !.locale_n = locales[threads[t].lang]])
  /\ UNCHANGED <<shared_state, process_locale>>

\* different_locale.__enter__: self.oldlocale = the LC_TIME locale in force
different_locale_save(t) ==
  /\ threads[t].pc = "enter"
  /\ thread_step(t, [threads[t] EXCEPT !.pc = "enter_set", !.oldlocale = process_locale.LC_TIME])
  /\ UNCHANGED <<shared_state, process_locale>>

\* different_locale.__enter__: setlocale(LC_TIME, self.locale)
different_locale_set(t) ==
  /\ threads[t].pc = "enter_set"
  /\ process_locale' = different_locale_enter(process_locale, threads[t].locale_n)
  /\ thread_step(t, [threads[t] EXCEPT !.pc = "896"])
  /\ UNCHANGED shared_state

\* line 896: s = calendar.month_name[month_no], under the LC_TIME locale in force
get_month_name_read(t) ==
  /\ threads[t].pc = "896"
  /\ IF month_name_valid(threads[t].month_no)
     THEN thread_step(t, [threads[t] EXCEPT !.pc = "exit",
                            !.s = month_name(process_locale.LC_TIME, threads[t].month_no)])
     ELSE thread_step(t, [threads[t] EXCEPT !.pc = "exit", !.exc = "IndexError"])
  /\ UNCHANGED <<shared_state, process_locale>>

\* different_locale.__exit__: setlocale(LC_TIME, self.oldlocale); an exception
\* raised in the body goes on to the caller
different_locale_restore(t) ==
  /\ threads[t].pc = "exit"
  /\ process_locale' = different_locale_exit(process_locale, threads[t].oldlocale)
  /\ thread_step(t, [threads[t] EXCEPT !.pc = IF threads[t].exc = "" THEN "907" ELSE "done"])
  /\ UNCHANGED shared_state

\* line 907: the argument self.current_lang of self.set_locale(...)
get_month_name_current_lang(t) ==
  /\ threads[t].pc = "907"
  /\ thread_step(t, [threads[t] EXCEPT !.pc = "887", !.arg = current_lang_of(t)])
  /\ UNCHANGED <<shared_state, process_locale>>

RaceNext ==
  \/ \E t \in Threads, lang \in Langs : call_set_locale(t, lang)
  \/ \E t \in Threads, month_no \in MonthInputs, lang \in Langs : call_get_month_name(t, month_no, lang)
  \/ \E t \in Threads : set_locale_lookup(t)
  \/ \E t \in Threads : set_locale_store(t)
  \/ \E t \in Threads : set_locale_setlocale(t)
  \/ \E t \in Threads : get_month_name_lookup(t)
  \/ \E t \in Threads : different_locale_save(t)
  \/ \E t \in Threads : different_locale_set(t)
  \/ \E t \in Threads : get_month_name_read(t)
  \/ \E t \in Threads : different_locale_restore(t)
  \/ \E t \in Threads : get_month_name_current_lang(t)

RaceSpec == RaceInit /\ [][RaceNext]_vars

\* ====================================================== get_theme_chain
\* The theme directories that exist, and for each the content of its 'parent'
\* file: None when there is no such file, EmptyFile when the file has no line,
\* otherwise the theme name on its first line, which may be a theme that has no
\* directory (MissingTheme).
AllThemes == <<"site", "bootstrap", "base", "custom", "extra">>
Themes == {AllThemes[i] : i \in 1..NumThemes}
MissingTheme == "missing"
EmptyFile == "<no line>"
ParentFiles == [Themes -> Themes \cup {None, MissingTheme, EmptyFile}]
\* the list themes holds each directory at most once, plus one name without a directory
MaxChain == NumThemes + 2

\* get_theme_path(theme) finds the directory or raises
get_theme_path_found(theme) == theme \in DOMAIN theme_files

\* get_parent_theme_name(theme_name): fd.readlines()[0].strip(), or None
get_parent_theme_name(theme_name) ==
  IF ~get_theme_path_found(theme_name) THEN [exc |-> "Exception: Can't find theme", ret |-> None]
  ELSE IF theme_files[theme_name] = EmptyFile THEN [exc |-> "IndexError", ret |-> None]
  ELSE [exc |-> "", ret |-> theme_files[theme_name]]

\* if parent is None or parent in themes: break
get_theme_chain_break_none_only(parent, themes) == parent = None
get_theme_chain_break(parent, themes) == parent = None \/ parent \in Range(themes)

ThemeInit ==
  /\ BorgInit
  /\ config = NoConfig /\ calls = <<>>
  /\ NoThreads
  /\ theme_files \in ParentFiles
  /\ chain = NoChain

\* themes = [theme]
get_theme_chain_call(theme) ==
  /\ chain.pc = "idle"
  /\ chain' = [pc |-> "loop", theme |-> theme, themes |-> <<theme>>, exc |-> ""]
  /\ UNCHANGED theme_files
  /\ UNCHANGED <<borg_vars, path_vars, race_vars>>

\* one pass through the body of while True, and the return after the break
get_theme_chain_loop ==
  /\ chain.pc = "loop"
  /\ Len(chain.themes) < MaxChain
  /\ LET parent == get_parent_theme_name(chain.themes[Len(chain.themes)])
     IN chain' = IF parent.exc # "" THEN [chain EXCEPT !.pc = "raised", !.exc = parent.exc]
                 ELSE IF get_theme_chain_break(parent.ret, chain.themes)
                      THEN [chain EXCEPT !.pc = "returned"]
                 ELSE [chain EXCEPT !.themes = Append(chain.themes, parent.ret)]
  /\ UNCHANGED theme_files
  /\ UNCHANGED <<borg_vars, path_vars, race_vars>>

ThemeNext ==
  \/ \E theme \in Themes \cup {MissingTheme} : get_theme_chain_call(theme)
  \/ get_theme_chain_loop

ThemeSpec == ThemeInit /\ [][ThemeNext]_vars

\* a call that has started keeps running: nothing it waits for
ThemeLiveSpec == ThemeSpec /\ WF_vars(get_theme_chain_loop)

\* ================================================================ claims
Uninitialized == ~ClassAttrsSet \/ ~initialized
Ready == ClassAttrsSet /\ initialized
\* the value a handle created now would read as current_lang
shared_current_lang == shared_state
AllCategories(locale_n) == [c \in DOMAIN process_locale |-> locale_n]
NotInitializedError == "Exception: Attempt to use LocaleBorg before initialization"
State == <<class_attrs, shared_state, initialized, locales, encodings, handles, process_locale>>

\* C1: whenever LocaleBorg is uninitialized (at process start, or after
\* reset()), creating a handle fails with the explicit "not initialized" error
\* and with no other kind of error.
C1_NotInitializedError ==
  [][(last'.op = "LocaleBorg" /\ Uninitialized) => last'.exc = NotInitializedError]_vars

\* C2: initialize with an initial_lang that is not a key of the table fails
\* and leaves the initialized flag, both tables, current_lang and the process
\* locale exactly as they were, from Uninitialized as well as from Ready.
C2_FailedInitializeChangesNothing ==
  [][(last'.op = "initialize" /\ last'.lang \notin DOMAIN last'.locales)
       => (last'.exc = "AssertionError" /\ State' = State)]_vars

C2_Witness ==
  /\ last.op = "initialize" /\ last.exc = "AssertionError"
  /\ last.lang \in Langs /\ DOMAIN last.locales # {} /\ last.lang \notin DOMAIN last.locales
  /\ Ready /\ DOMAIN locales # DOMAIN last.locales

\* C3: right after a successful initialize(locales, initial_lang) the active
\* process locale is locales[initial_lang].
C3_InitialLangActivated ==
  (last.op = "initialize" /\ last.exc = "") => process_locale = AllCategories(locales[last.lang])

\* C4: after every successful initialize, initialized is true, the tables hold
\* exactly the languages of the table passed in (with that table's locales and
\* their encodings), and a handle created next reads initial_lang.
C4_CleanStateAfterInitialize ==
  /\ [](last.op = "initialize" /\ last.exc = ""
         => /\ Ready
            /\ locales = last.locales
            /\ DOMAIN encodings = DOMAIN last.locales
            /\ shared_current_lang = last.lang)
  /\ [][(last.op = "initialize" /\ last.exc = "" /\ last'.op = "LocaleBorg")
         => (last'.exc = "" /\ handles'[last'.h].dict = "shared" /\ shared_state' = last.lang)]_vars

C4_Witness ==
  /\ last.op = "initialize" /\ last.exc = ""
  /\ \E h \in 1..MaxHandles :
       handles[h].dict = "dropped" /\ current_lang_of(h) \notin DOMAIN locales

\* C5: in the Ready state set_locale(lang) with lang a key of the table sets
\* current_lang to lang, activates locales[lang], leaves both tables alone and
\* returns ''.
C5_SetLocale ==
  [][(last'.op = "set_locale" /\ Ready /\ last'.lang \in DOMAIN locales)
       => /\ last'.exc = "" /\ last'.ret = ""
          /\ shared_state' = last'.lang
          /\ process_locale' = AllCategories(locales[last'.lang])
          /\ locales' = locales /\ encodings' = encodings]_vars

C5_Witness ==
  /\ last.op = "set_locale" /\ last.exc = "" /\ Ready
  /\ shared_current_lang = last.lang
  /\ \E l \in DOMAIN locales : locales[l] # locales[last.lang]

\* C6: when get_month_name returns normally for a lang of the table,
\* current_lang is what it was before the call and the active process locale
\* is locales[current_lang].
C6_MonthNameRestores ==
  [][(last'.op = "get_month_name" /\ last'.exc = "" /\ Ready)
       => /\ shared_state' = shared_current_lang
          /\ process_locale' = AllCategories(locales[shared_current_lang])]_vars

\* C7: on every exit path of get_month_name, the failing month lookup included,
\* current_lang is unchanged and the active process locale ends up equal to
\* locales[current_lang].
C7_MonthNameRestoresOnFailure ==
  [][(last'.op = "get_month_name" /\ Ready /\ last'.lang \in DOMAIN locales)
       => /\ shared_state' = shared_current_lang
          /\ process_locale' = AllCategories(locales[shared_current_lang])]_vars

\* C8: all handles share one state: after a successful set_locale(lang) every
\* existing handle, and a handle created later, reads lang as current_lang.
C8_HandlesShareState ==
  (last.op = "set_locale" /\ last.exc = "")
    => /\ shared_current_lang = last.lang
       /\ \A h \in 1..MaxHandles : handles[h] # NoInstance => current_lang_of(h) = last.lang

\* C9: reset() leaves LocaleBorg uninitialized, and until the next successful
\* initialize every read of current_lang, set_locale, get_month_name and handle
\* creation fails, through handles created before the reset too.
C9_UninitializedAfterReset ==
  /\ [](last.op = "reset" => ClassAttrsSet /\ ~initialized)
  /\ [][(ClassAttrsSet /\ ~initialized
          /\ last'.op \in {"current_lang", "set_locale", "get_month_name", "LocaleBorg"})
         => last'.exc # ""]_vars

\* a path that carries a language marker: it is, as a whole, the pattern filled
\* with a non-empty path, a non-empty extension free of . and /, and a
\* configured language
CarriesMarker(cfg, s) ==
  \E i, j \in 1..Len(s), m, n \in 1..Len(s), l \in Range(cfg.TRANSLATIONS) :
    /\ i <= j /\ m <= n
    /\ \A x \in m..n : s[x] \notin {".", "/"}
    /\ pattern_format(cfg.TRANSLATIONS_PATTERN, SubSeq(s, i, j), SubSeq(s, m, n), l) = s

\* an untranslated path p.ext: a stem, a dot, an extension, and no marker
UntranslatedPath(cfg, s) ==
  /\ splitext(s)[1] # <<>> /\ Len(splitext(s)[2]) >= 2
  /\ ~CarriesMarker(cfg, s)

\* C10: round trip: for an untranslated path p.ext and a configured
\* non-default language L, resolving p.ext to L and the result back to the
\* default language gives p.ext again.
C10_RoundTrip ==
  (/\ Len(calls) = 2
   /\ UntranslatedPath(config, calls[1].path)
   /\ calls[1].lang # config.DEFAULT_LANG
   /\ calls[2].lang = config.DEFAULT_LANG)
    => calls[2].result = calls[1].path

\* C11: resolving a result again to the same language gives the same result,
\* for both patterns, every path and every configured language.
C11_Idempotent ==
  (Len(calls) = 2 /\ calls[2].lang = calls[1].lang) => calls[2].result = calls[1].result

\* r is s with one occurrence of ".l" taken out and nothing else changed
MarkerRemoved(s, l, r) ==
  \E k \in 0..Len(r) : s = SubSeq(r, 1, k) \o <<".">> \o l \o SubSeq(r, k + 1, Len(r))

\* C12: a path that matches with three non-empty captures and a captured
\* language other than the target, resolved to the default language, gives
\* captured_path.captured_ext, and that result is the input with only the
\* language marker and its dot removed.
C12_DefaultStripsMarker ==
  \A i \in 1..Len(calls) :
    LET s == calls[i].path
        m == re_match(config, s)
    IN (/\ is_translated_path(m)
        /\ calls[i].lang = config.DEFAULT_LANG
        /\ m[1].lang # calls[i].lang)
         => /\ calls[i].result = m[1].path \o <<".">> \o m[1].ext
            /\ MarkerRemoved(s, m[1].lang, calls[i].result)

\* the text after the last '.' of the whole path, empty when there is no '.'
LastDotExtension(s) ==
  IF \E i \in 1..Len(s) : s[i] = "."
  THEN LET d == CHOOSE i \in 1..Len(s) : s[i] = "." /\ \A j \in (i + 1)..Len(s) : s[j] # "."
       IN SubSeq(s, d + 1, Len(s))
  ELSE <<>>

LastDotStem(s) ==
  IF \E i \in 1..Len(s) : s[i] = "."
  THEN SubSeq(s, 1, Len(s) - Len(LastDotExtension(s)) - 1)
  ELSE s

\* position of the dot that starts the extension of the last path component: a
\* dot with no '.' and no '/' after it and, between the last '/' and itself, at
\* least one character that is not a dot; 0 when there is no such dot
ExtensionDot(s) ==
  LET IsExtDot(i) ==
        /\ s[i] = "."
        /\ \A j \in (i + 1)..Len(s) : s[j] \notin {".", "/"}
        /\ \E j \in 1..(i - 1) : s[j] \notin {".", "/"} /\ \A x \in j..i : s[x] # "/"
  IN IF \E i \in 1..Len(s) : IsExtDot(i) THEN CHOOSE i \in 1..Len(s) : IsExtDot(i) ELSE 0

ComponentExtension(s) == IF ExtensionDot(s) = 0 THEN <<>> ELSE SubSeq(s, ExtensionDot(s) + 1, Len(s))
ComponentStem(s) == IF ExtensionDot(s) = 0 THEN s ELSE SubSeq(s, 1, ExtensionDot(s) - 1)

CaseB(cfg, s) == ~is_translated_path(re_match(cfg, s))

\* C13 as stated: in Case B the result is the path itself for the default
\* language and otherwise the template filled with stem, extension and lang,
\* the extension being the text after the last '.' of the path.
C13_CaseBLastDot ==
  \A i \in 1..Len(calls) :
    CaseB(config, calls[i].path)
      => calls[i].result =
           IF calls[i].lang = config.DEFAULT_LANG THEN calls[i].path
           ELSE pattern_format(config.TRANSLATIONS_PATTERN, LastDotStem(calls[i].path),
                               LastDotExtension(calls[i].path), calls[i].lang)

\* C13, amended: the extension is the text after the last '.' of the last path
\* component when that component has a character other than '.' before that
\* dot, and is empty otherwise; the stem is the path without the extension and
\* its dot.
C13_CaseBSplitext ==
  \A i \in 1..Len(calls) :
    CaseB(config, calls[i].path)
      => calls[i].result =
           IF calls[i].lang = config.DEFAULT_LANG THEN calls[i].path
           ELSE pattern_format(config.TRANSLATIONS_PATTERN, ComponentStem(calls[i].path),
                               ComponentExtension(calls[i].path), calls[i].lang)

C13_Witness ==
  /\ Len(calls) >= 1
  /\ CaseB(config, calls[1].path)
  /\ calls[1].lang # config.DEFAULT_LANG
  /\ LastDotExtension(calls[1].path) # ComponentExtension(calls[1].path)

\* C15: whenever LocaleBorg is initialized, the shared current_lang is a key
\* of the current locale table, whatever calls came before, failed calls and
\* calls through handles of an earlier reset included.
C15_CurrentLangInTable == Ready => shared_current_lang \in DOMAIN locales

C15_Witness ==
  /\ Ready
  /\ last.op = "get_month_name" /\ last.exc = "KeyError" /\ last.lang \in DOMAIN locales
  /\ handles[last.h].dict = "dropped" /\ handles[last.h].current_lang \notin DOMAIN locales

\* C16: the result is the same under every order of the keys of TRANSLATIONS.
C16_KeyOrderIrrelevant ==
  \A i \in 1..Len(calls) :
    \A keys \in Orders(Range(config.TRANSLATIONS)) :
      get_translation_candidate([config EXCEPT !.TRANSLATIONS = keys],
                                calls[i].path, calls[i].lang) = calls[i].result

\* C17: in the Ready state set_locale(lang) with lang not a key of the table
\* fails with KeyError and leaves current_lang, the process locale and both
\* tables as they were.
C17_SetLocaleUnknownLang ==
  [][(last'.op = "set_locale" /\ Ready /\ last'.lang \notin DOMAIN locales)
       => (last'.exc = "KeyError" /\ State' = State)]_vars

C17_Witness ==
  /\ last.op = "set_locale" /\ last.exc = "KeyError"
  /\ Ready /\ DOMAIN locales # {} /\ last.lang \notin DOMAIN locales
  /\ shared_current_lang \in DOMAIN locales

\* C18: for a translated setting with no lang override get_lang returns
\* LocaleBorg's current_lang when LocaleBorg is initialized, and returns the
\* setting's default_lang without raising when it is not, before the first
\* initialize as well as after reset().
C18_GetLangFallsBack ==
  (last.op = "get_lang" /\ last.translated /\ last.lang = None)
    => /\ last.exc = ""
       /\ last.ret = IF Ready THEN shared_current_lang ELSE last.default_lang

\* both threads' calls have returned normally
BothReturned == \A t \in Threads : threads[t].pc = "done" /\ threads[t].exc = ""
\* the active process locale is not locales[current_lang]
RaceLocale == process_locale # AllCategories(locales[shared_current_lang])
\* a completed set_locale(a) ran beside a get_month_name, and current_lang is not a
RaceOverwritten ==
  \E t \in Threads :
    /\ threads[t].op = "set_locale" /\ threads[Other(t)].op = "get_month_name"
    /\ shared_current_lang # threads[t].lang

\* C14: LocaleBorg takes no lock.  When the two calls run one after the other
\* and both return normally, the process locale is locales[current_lang] and a
\* set_locale's current_lang survives a get_month_name; the race state of the
\* claim (C14_Witness) is reached only by interleaving their statements.
C14_RaceNeedsInterleaving ==
  (BothReturned /\ ~interleaved) => (~RaceLocale /\ ~RaceOverwritten)

C14_Witness == BothReturned /\ interleaved /\ RaceLocale /\ RaceOverwritten

\* every 'parent' file names an existing theme, and so does the argument
ParentRelationBetweenThemes ==
  /\ \A th \in DOMAIN theme_files : theme_files[th] \in DOMAIN theme_files \cup {None}
  /\ chain.theme \in DOMAIN theme_files

\* C19: get_theme_chain(theme) terminates for every parent relation, cycles and
\* self-parents included; for a parent relation between themes it returns, and
\* the list it returns starts with theme, has after each element that element's
\* parent, and has no name twice.
C19_ThemeChainTerminates ==
  /\ (chain.pc = "loop") ~> (chain.pc \in {"returned", "raised"})
  /\ [](ParentRelationBetweenThemes => chain.pc # "raised")
  /\ [](chain.pc = "returned"
         => /\ chain.themes[1] = chain.theme
            /\ \A i \in 2..Len(chain.themes) : chain.themes[i] = theme_files[chain.themes[i - 1]]
            /\ \A i, j \in 1..Len(chain.themes) : chain.themes[i] = chain.themes[j] => i = j)

\* a chain that ended because the last theme's parent starts a cycle
C19_Witness ==
  /\ chain.pc = "returned"
  /\ Len(chain.themes) >= 2
  /\ theme_files[chain.themes[Len(chain.themes)]] = chain.theme
====
